---- MODULE Spec2Model ----
(***************************************************************************)
(* SecureAuditAI compliance agent: the rule engine, the per-resource       *)
(* analysis with its fallback, the scoring loop of audit_compliance, the   *)
(* contents of the compliance report, and the audit run record kept by     *)
(* the trigger_scan lambda.                                                *)
(*                                                                         *)
(* Python values are modelled as follows.  A dict is a function whose      *)
(* DOMAIN is the set of keys it holds; d.get(k, default) is Get.  A str is *)
(* a string; an f-string is the concatenation (\o) of its parts.  The      *)
(* values True, False and None are the strings "True", "False", "None";    *)
(* Truthy is Python's truth test on the modelled values.  A list is a      *)
(* sequence.  datetime.utcnow() reads the variable now.                    *)
(***************************************************************************)
EXTENDS Integers, Sequences, FiniteSets, TLC

VARIABLES
    resource,   \* the resource dict handed to the analyzer
    now,        \* the wall clock read by datetime.utcnow()
    calls,      \* the two runs made on the analyzer, each with its result
    \* audit_compliance (main.py) and the analyze_compliance call it awaits
    pc,                     \* where audit_compliance stands
    compliance_frameworks,  \* request['complianceFrameworks']
    resources,              \* the inventory of generate_mock_resources
    fw_idx,                 \* position of the loop over compliance_frameworks
    res_idx,                \* position of analyze_compliance's loop
    findings,               \* analyze_compliance's findings so far
    framework_findings,     \* what analyze_compliance returned last
    all_findings,
    compliance_scores,
    score_order,            \* the keys of compliance_scores as inserted
    overall_score,
    result,                 \* the dict audit_compliance returns
    analysis_log,           \* per resource of the running analyze_compliance:
                            \* whether the except branch ran, the parsed
                            \* answer if it did not, and the findings
    reports,                \* the report contents compiled so far
    \* lambda_handler of trigger_scan.py and the tables it writes
    scan_pc,            \* where lambda_handler stands
    event,              \* the event the handler was invoked with
    audit_run_id,       \* the local of that name, Unbound before line 34
    audit_runs_table,   \* the audit run records by AuditRunId
    scan_results,       \* the findings of simulate_compliance_scan
    findings_table,     \* the finding records put by this invocation
    snapshots_table,    \* the snapshot records put by this invocation
    findings_count,
    response            \* the dict lambda_handler returns

engine_vars == <<resource, calls>>

audit_vars ==
    <<pc, compliance_frameworks, resources, fw_idx, res_idx, findings,
      framework_findings, all_findings, compliance_scores, score_order,
      overall_score, result, analysis_log, reports>>

scan_vars ==
    <<scan_pc, event, audit_run_id, audit_runs_table, scan_results,
      findings_table, snapshots_table, findings_count, response>>

vars == <<resource, now, calls, audit_vars, scan_vars>>

-----------------------------------------------------------------------------
(* Bounds of the model *)

MaxClock == 1
MaxPerms == 2
MaxEnvVars == 2

-----------------------------------------------------------------------------
(* Python helpers *)

None == "None"

Get(d, k, default) == IF k \in DOMAIN d THEN d[k] ELSE default

Truthy(v) == v \notin {"False", "None", ""}

EmptyDict == <<>>

\* Every dict with keys among keys and values among vals.
Dicts(keys, vals) == UNION {[ks -> vals] : ks \in SUBSET keys}

UpperChars == "ABCDEFGHIJKLMNOPQRSTUVWXYZ"
LowerChars == "abcdefghijklmnopqrstuvwxyz"

LowerChar(c) ==
    IF \E i \in 1..Len(UpperChars) : SubSeq(UpperChars, i, i) = c
    THEN LET i == CHOOSE k \in 1..Len(UpperChars) : SubSeq(UpperChars, k, k) = c
         IN  SubSeq(LowerChars, i, i)
    ELSE c

RECURSIVE Lower(_)
Lower(s) ==
    IF Len(s) = 0 THEN ""
    ELSE LowerChar(SubSeq(s, 1, 1)) \o Lower(SubSeq(s, 2, Len(s)))

\* Python's  sub in s  on two strings.
Contains(s, sub) ==
    \E i \in 0..(Len(s) - Len(sub)) : SubSeq(s, i + 1, i + Len(sub)) = sub

\* Python's  x in xs  on a list.
InList(x, xs) == \E i \in 1..Len(xs) : xs[i] = x

-----------------------------------------------------------------------------
(* Inputs *)

Frameworks == {"GDPR", "SOC2", "PCI-DSS"}

ResourceTypes ==
    {"S3_BUCKET", "EC2_INSTANCE", "IAM_ROLE", "LAMBDA_FUNCTION",
     "RDS_INSTANCE", "CLOUDTRAIL_TRAIL"}

ResourceIds == {"b1"}

\* What a boolean attribute of a config may hold: a bool, null, a string.
FlagValues == {"True", "False", "None", "yes"}

Permissions == {"*", "s3:*", "s3:GetObject"}

PermissionLists == UNION {[1..n -> Permissions] : n \in 0..MaxPerms}

VarNames == {"DB_PASSWORD", "auth_token", "SecretKey", "STAGE", "PASS"}

VarValues == {"x", "my-secret-password"}

EnvDicts ==
    UNION {[ks -> VarValues] :
             ks \in {s \in SUBSET VarNames : Cardinality(s) <= MaxEnvVars}}

Configs ==
    Dicts({"publicAccess", "encryption"}, FlagValues)
    \cup Dicts({"publicIp"}, FlagValues)
    \cup Dicts({"permissions"}, PermissionLists)
    \cup Dicts({"environmentVariables"}, EnvDicts)

\* A resource dict: each of type, id and config may be missing.
Resources ==
    LET types   == [type : ResourceTypes] \cup {EmptyDict}
        ids     == [id : ResourceIds] \cup {EmptyDict}
        configs == [config : Configs] \cup {EmptyDict}
    IN  {t @@ i @@ c : t \in types, i \in ids, c \in configs}

-----------------------------------------------------------------------------
(* ComplianceAnalyzer._rule_based_analysis *)

Finding(title, description, severity, resource_type, resource_id, framework, riskScore, remediationSteps, requirement, t) ==
    [title                |-> title,
     description          |-> description,
     severity             |-> severity,
     resourceType         |-> resource_type,
     resourceId           |-> resource_id,
     complianceFrameworks |-> <<framework>>,
     riskScore            |-> riskScore,
     remediationSteps     |-> remediationSteps,
     requirement          |-> requirement,
     createdAt            |-> t]

S3PublicAccessFinding(framework, res, resource_type, t) ==
    Finding("S3 Bucket Public Access (" \o framework \o ")",
            "S3 bucket " \o Get(res, "id", None) \o " has public access enabled",
            "HIGH", resource_type, Get(res, "id", None), framework, 75,
            <<"Disable public access on S3 bucket",
              "Review bucket policy for public permissions",
              "Enable S3 Block Public Access">>,
            framework \o ": Data protection requirements", t)

S3EncryptionFinding(framework, res, resource_type, t) ==
    Finding("S3 Bucket Encryption (" \o framework \o ")",
            "S3 bucket " \o Get(res, "id", None)
                \o " does not have encryption enabled",
            "MEDIUM", resource_type, Get(res, "id", None), framework, 60,
            <<"Enable S3 default encryption",
              "Use AES-256 or AWS-KMS encryption">>,
            framework \o ": Encryption requirements", t)

\* Mutant: the EC2 rule reports severity LOW.
EC2PublicIpFindingLow(framework, res, resource_type, t) ==
    Finding("EC2 Public IP Exposure (" \o framework \o ")",
            "EC2 instance " \o Get(res, "id", None) \o " has a public IP address",
            "LOW", resource_type, Get(res, "id", None), framework, 50,
            <<"Review security group configurations",
              "Consider using private subnets",
              "Implement proper network access controls">>,
            framework \o ": Network security requirements", t)

EC2PublicIpFinding(framework, res, resource_type, t) ==
    Finding("EC2 Public IP Exposure (" \o framework \o ")",
            "EC2 instance " \o Get(res, "id", None) \o " has a public IP address",
            "MEDIUM", resource_type, Get(res, "id", None), framework, 50,
            <<"Review security group configurations",
              "Consider using private subnets",
              "Implement proper network access controls">>,
            framework \o ": Network security requirements", t)

IAMWildcardFinding(framework, res, resource_type, t) ==
    Finding("Over-Privileged IAM Role (" \o framework \o ")",
            "IAM role " \o Get(res, "id", None) \o " has wildcard permissions",
            "CRITICAL", resource_type, Get(res, "id", None), framework, 90,
            <<"Remove wildcard permissions",
              "Apply principle of least privilege",
              "Use specific IAM actions only">>,
            framework \o ": Least privilege requirements", t)

\* Mutant: the description names the framework as well.
LambdaSensitiveFindingPerFramework(framework, res, resource_type, t) ==
    Finding("Sensitive Data in Lambda Environment (" \o framework \o ")",
            "Lambda function " \o Get(res, "id", None)
                \o " contains sensitive data (" \o framework \o ")",
            "HIGH", resource_type, Get(res, "id", None), framework, 70,
            <<"Remove sensitive data from environment variables",
              "Use AWS Secrets Manager or Parameter Store",
              "Update function configuration">>,
            framework \o ": Data protection requirements", t)

LambdaSensitiveFinding(framework, res, resource_type, t) ==
    Finding("Sensitive Data in Lambda Environment (" \o framework \o ")",
            "Lambda function " \o Get(res, "id", None)
                \o " contains sensitive data in environment variables",
            "HIGH", resource_type, Get(res, "id", None), framework, 70,
            <<"Remove sensitive data from environment variables",
              "Use AWS Secrets Manager or Parameter Store",
              "Update function configuration">>,
            framework \o ": Data protection requirements", t)

\* if config.get('publicAccess', False)
S3PublicAccess(config) == Truthy(Get(config, "publicAccess", "False"))

\* Mutant: a missing encryption attribute counts as encrypted.
S3UnencryptedDefaultTrue(config) == ~Truthy(Get(config, "encryption", "True"))

\* if not config.get('encryption', False)
S3Unencrypted(config) == ~Truthy(Get(config, "encryption", "False"))

\* if config.get('publicIp', False)
EC2PublicIp(config) == Truthy(Get(config, "publicIp", "False"))

\* Mutant: a wildcard inside a permission string counts too.
IAMWildcardSubstring(config) ==
    LET permissions == Get(config, "permissions", <<>>)
    IN  \E i \in 1..Len(permissions) : Contains(permissions[i], "*")

\* '*' in config.get('permissions', [])
IAMWildcard(config) == InList("*", Get(config, "permissions", <<>>))

sensitive_patterns == {"password", "secret", "key", "token"}

\* Mutant: the names are compared without lower().
HasSensitiveCaseSensitive(config) ==
    LET env_vars == Get(config, "environmentVariables", EmptyDict)
    IN  \E var_name \in DOMAIN env_vars :
            \E pattern \in sensitive_patterns : Contains(var_name, pattern)

\* any(any(pattern in var_name.lower() ...) for var_name in env_vars.keys())
HasSensitive(config) ==
    LET env_vars == Get(config, "environmentVariables", EmptyDict)
    IN  \E var_name \in DOMAIN env_vars :
            \E pattern \in sensitive_patterns :
                Contains(Lower(var_name), pattern)

\* Mutant: the encryption rule is an elif of the public-access rule.
S3RulesExclusive(framework, res, resource_type, config, t) ==
    IF S3PublicAccess(config)
    THEN <<S3PublicAccessFinding(framework, res, resource_type, t)>>
    ELSE IF S3Unencrypted(config)
         THEN <<S3EncryptionFinding(framework, res, resource_type, t)>>
         ELSE <<>>

S3Rules(framework, res, resource_type, config, t) ==
    (IF S3PublicAccess(config)
     THEN <<S3PublicAccessFinding(framework, res, resource_type, t)>>
     ELSE <<>>)
    \o
    (IF S3Unencrypted(config)
     THEN <<S3EncryptionFinding(framework, res, resource_type, t)>>
     ELSE <<>>)

EC2Rules(framework, res, resource_type, config, t) ==
    IF EC2PublicIp(config)
    THEN <<EC2PublicIpFinding(framework, res, resource_type, t)>>
    ELSE <<>>

IAMRules(framework, res, resource_type, config, t) ==
    IF IAMWildcard(config)
    THEN <<IAMWildcardFinding(framework, res, resource_type, t)>>
    ELSE <<>>

LambdaRules(framework, res, resource_type, config, t) ==
    IF HasSensitive(config)
    THEN <<LambdaSensitiveFinding(framework, res, resource_type, t)>>
    ELSE <<>>

rule_based_analysis(framework, res, t) ==
    LET resource_type == Get(res, "type", "")
        config        == Get(res, "config", EmptyDict)
    IN  CASE resource_type = "S3_BUCKET" ->
                 S3Rules(framework, res, resource_type, config, t)
          [] resource_type = "EC2_INSTANCE" ->
                 EC2Rules(framework, res, resource_type, config, t)
          [] resource_type = "IAM_ROLE" ->
                 IAMRules(framework, res, resource_type, config, t)
          [] resource_type = "LAMBDA_FUNCTION" ->
                 LambdaRules(framework, res, resource_type, config, t)
          [] OTHER -> <<>>

-----------------------------------------------------------------------------
(* ComplianceAnalyzer._parse_analysis_result and _analyze_resource *)

\* What the Bedrock call of _analyze_resource can end in: invoke_model raises
\* (failure, timeout), the response text is not JSON, or it parses to a JSON
\* value, here a list of candidates or an object.  A candidate is a JSON
\* object (a dict of fields) or, when the model misbehaves, a string.
Raise == [kind |-> "raise"]

Unparsable == [kind |-> "unparsable"]

Result(value) == [kind |-> "result", value |-> value]

JsonList(items) == [json |-> "list", items |-> items]

JsonObject(fields) == [json |-> "object", fields |-> fields]

JsonString == [json |-> "string"]

\* finding.get(...) on a candidate that is no dict raises AttributeError.
parse_raises(analysis_result) ==
    /\ analysis_result.json = "list"
    /\ \E i \in 1..Len(analysis_result.items) :
           analysis_result.items[i].json # "object"

\* Mutant: a candidate without a severity becomes a LOW finding.
structured_finding_default_low(framework, res, finding, t) ==
    [title                |-> Get(finding, "title", framework \o " Compliance Issue"),
     description          |-> Get(finding, "description", "Compliance violation detected"),
     severity             |-> Get(finding, "severity", "LOW"),
     resourceType         |-> Get(res, "type", "Unknown"),
     resourceId           |-> Get(res, "id", "Unknown"),
     complianceFrameworks |-> <<framework>>,
     riskScore            |-> Get(finding, "riskScore", 50),
     remediationSteps     |-> Get(finding, "remediationSteps", <<>>),
     requirement          |-> Get(finding, "requirement", framework \o " requirement"),
     createdAt            |-> t]

\* Mutant: a candidate's own resourceId goes before the resource's id.
structured_finding_candidate_id(framework, res, finding, t) ==
    [title                |-> Get(finding, "title", framework \o " Compliance Issue"),
     description          |-> Get(finding, "description", "Compliance violation detected"),
     severity             |-> Get(finding, "severity", "MEDIUM"),
     resourceType         |-> Get(res, "type", "Unknown"),
     resourceId           |-> Get(finding, "resourceId", Get(res, "id", "Unknown")),
     complianceFrameworks |-> <<framework>>,
     riskScore            |-> Get(finding, "riskScore", 50),
     remediationSteps     |-> Get(finding, "remediationSteps", <<>>),
     requirement          |-> Get(finding, "requirement", framework \o " requirement"),
     createdAt            |-> t]

structured_finding(framework, res, finding, t) ==
    [title                |-> Get(finding, "title", framework \o " Compliance Issue"),
     description          |-> Get(finding, "description", "Compliance violation detected"),
     severity             |-> Get(finding, "severity", "MEDIUM"),
     resourceType         |-> Get(res, "type", "Unknown"),
     resourceId           |-> Get(res, "id", "Unknown"),
     complianceFrameworks |-> <<framework>>,
     riskScore            |-> Get(finding, "riskScore", 50),
     remediationSteps     |-> Get(finding, "remediationSteps", <<>>),
     requirement          |-> Get(finding, "requirement", framework \o " requirement"),
     createdAt            |-> t]

\* Defined when parse_raises(analysis_result) is false.
parse_analysis_result(framework, res, analysis_result, t) ==
    IF analysis_result.json = "list"
    THEN [i \in 1..Len(analysis_result.items) |->
              structured_finding(framework, res,
                                 analysis_result.items[i].fields, t)]
    ELSE <<>>

\* Whether _analyze_resource leaves its try block by the except branch.
falls_back(outcome) ==
    outcome.kind # "result" \/ parse_raises(outcome.value)

\* Mutant: a failed analyzer call yields no findings for the resource.
analyze_resource_no_fallback(framework, res, outcome, t) ==
    IF outcome.kind = "result" /\ ~parse_raises(outcome.value)
    THEN parse_analysis_result(framework, res, outcome.value, t)
    ELSE <<>>

\* Mutant: a slow clock tick makes the call time out and fall back.
analyze_resource_timing(framework, res, outcome, t) ==
    IF outcome.kind = "result" /\ ~parse_raises(outcome.value) /\ t = 0
    THEN parse_analysis_result(framework, res, outcome.value, t)
    ELSE rule_based_analysis(framework, res, t)

\* try: invoke, json.loads, _parse_analysis_result
\* except Exception: _rule_based_analysis
analyze_resource(framework, res, outcome, t) ==
    IF outcome.kind = "result" /\ ~parse_raises(outcome.value)
    THEN parse_analysis_result(framework, res, outcome.value, t)
    ELSE rule_based_analysis(framework, res, t)

-----------------------------------------------------------------------------
(* Float arithmetic of the scoring loop, as exact fractions num/den.  The   *)
(* operands are small integers, so the rounding of a double (below 1e-13)   *)
(* is not modelled.                                                         *)

RECURSIVE Gcd(_, _)
Gcd(a, b) == IF b = 0 THEN a ELSE Gcd(b, a % b)

Abs(a) == IF a < 0 THEN -a ELSE a

\* n / d for d > 0, in lowest terms.
Frac(n, d) ==
    LET g == Gcd(Abs(n), d)
    IN  [num |-> n \div g, den |-> d \div g]

FracOfInt(n) == [num |-> n, den |-> 1]

FracSub(a, b) == Frac(a.num * b.den - b.num * a.den, a.den * b.den)

FracAdd(a, b) == Frac(a.num * b.den + b.num * a.den, a.den * b.den)

FracLess(a, b) == a.num * b.den < b.num * a.den

\* max(a, b): the first of the largest, as Python's max.
FracMax(a, b) == IF FracLess(a, b) THEN b ELSE a

RECURSIVE SumRisk(_)
\* sum(finding.get('riskScore', 50) for finding in framework_findings)
SumRisk(fs) ==
    IF fs = <<>> THEN 0
    ELSE Get(Head(fs), "riskScore", 50) + SumRisk(Tail(fs))

-----------------------------------------------------------------------------
(* audit_compliance: lines 53-63 of main.py, the score of one framework *)

RECURSIVE RunningRisk(_)
\* The riskScore of the findings, each halved once for every finding after it.
RunningRisk(fs) ==
    IF Len(fs) = 1 THEN FracOfInt(Get(fs[1], "riskScore", 50))
    ELSE LET front == RunningRisk(SubSeq(fs, 1, Len(fs) - 1))
             last  == FracOfInt(Get(fs[Len(fs)], "riskScore", 50))
         IN  Frac(front.num * last.den + last.num * front.den,
                  2 * front.den * last.den)

\* Mutant: the mean is a running mean, which weighs late findings more.
framework_score_running(fs) ==
    IF fs # <<>>
    THEN FracMax(FracOfInt(0), FracSub(FracOfInt(100), RunningRisk(fs)))
    ELSE FracOfInt(100)

\* Mutant: the score is not clamped at 0.
framework_score_unclamped(fs) ==
    IF fs # <<>>
    THEN FracSub(FracOfInt(100),
                 Frac(SumRisk(fs), Len(fs)))
    ELSE FracOfInt(100)

\* Mutant: a framework without findings scores 0.
framework_score_empty_zero(fs) ==
    IF fs # <<>>
    THEN LET avg_risk == Frac(SumRisk(fs),
                              Len(fs))
         IN  FracMax(FracOfInt(0), FracSub(FracOfInt(100), avg_risk))
    ELSE FracOfInt(0)

framework_score(fs) ==
    IF fs # <<>>
    THEN LET avg_risk == Frac(SumRisk(fs),
                              Len(fs))
         IN  FracMax(FracOfInt(0), FracSub(FracOfInt(100), avg_risk))
    ELSE FracOfInt(100)

-----------------------------------------------------------------------------
(* Inputs of the per-resource analysis and of the audit *)

\* Resources of each shape the rules tell apart, one of them without an id.
AnalyzedResources ==
    {[type |-> "S3_BUCKET", id |-> "b1",
      config |-> [publicAccess |-> "True", encryption |-> "False"]],
     [type |-> "IAM_ROLE", id |-> "r1", config |-> [permissions |-> <<"*">>]],
     [type |-> "RDS_INSTANCE", id |-> "db1", config |-> [encryption |-> "True"]],
     [type |-> "EC2_INSTANCE", config |-> [publicIp |-> "True"]]}

AnalyzedFrameworks == {"GDPR", "SOC2"}

MaxCandidates == 2

FullCandidate ==
    [title |-> "Bucket is public", description |-> "Public read access",
     severity |-> "HIGH", riskScore |-> 80,
     remediationSteps |-> <<"Block public access">>,
     requirement |-> "Data Protection",
     complianceFrameworks |-> <<"HIPAA">>, resourceId |-> "other"]

Candidates ==
    {JsonObject(EmptyDict),
     JsonObject([severity |-> "BOGUS", riskScore |-> 150]),
     JsonObject(FullCandidate),
     JsonString}

Outcomes ==
    {Raise, Unparsable, Result(JsonObject(EmptyDict)), Result(JsonString)}
    \cup {Result(JsonList(items)) :
            items \in UNION {[1..n -> Candidates] : n \in 0..MaxCandidates}}

\* The inventory of an audit: resources the rule engine scores 75 and 60,
\* 90, and 70.
AuditResources ==
    {[type |-> "S3_BUCKET", id |-> "b1",
      config |-> [publicAccess |-> "True", encryption |-> "False"]],
     [type |-> "IAM_ROLE", id |-> "r1", config |-> [permissions |-> <<"*">>]],
     [type |-> "LAMBDA_FUNCTION", id |-> "f1",
      config |-> [environmentVariables |-> [API_KEY |-> "x"]]]}

MaxResources == 2

Inventories == UNION {[1..n -> AuditResources] : n \in 0..MaxResources}

RequestedFrameworks ==
    {<<>>, <<"GDPR">>, <<"PCI-DSS">>, <<"GDPR", "SOC2">>, <<"SOC2", "GDPR">>,
     <<"GDPR", "GDPR">>}

\* What the analyzer answers during an audit.
AuditOutcomes ==
    {Raise,
     Unparsable,
     Result(JsonList(<<>>)),
     Result(JsonList(<<JsonObject([severity |-> "HIGH", riskScore |-> 150])>>)),
     Result(JsonList(<<JsonObject([severity |-> "LOW", riskScore |-> -20])>>))}

-----------------------------------------------------------------------------
(* State machines *)

Call(op, framework, outcome, fs) ==
    [op |-> op, framework |-> framework, outcome |-> outcome, findings |-> fs]


NoOutcome == [kind |-> "none"]

\* lambda_handler has not been invoked.
ScanIdle ==
    /\ scan_pc = "idle"
    /\ event = EmptyDict
    /\ audit_run_id = "unbound"
    /\ audit_runs_table = EmptyDict
    /\ scan_results = <<>>
    /\ findings_table = <<>>
    /\ snapshots_table = <<>>
    /\ findings_count = 0
    /\ response = EmptyDict

AuditIdle ==
    /\ pc = "idle"
    /\ compliance_frameworks = <<>>
    /\ resources = <<>>
    /\ fw_idx = 1
    /\ res_idx = 1
    /\ findings = <<>>
    /\ framework_findings = <<>>
    /\ all_findings = <<>>
    /\ compliance_scores = EmptyDict
    /\ score_order = <<>>
    /\ overall_score = FracOfInt(0)
    /\ result = EmptyDict
    /\ analysis_log = <<>>
    /\ reports = <<>>

\* The wall clock advances between calls.
Tick ==
    /\ now < MaxClock
    /\ now' = now + 1
    /\ UNCHANGED <<scan_vars, engine_vars, audit_vars>>

\* analyzer._rule_based_analysis(framework, resource)
RuleBasedAnalysis(frameworks) ==
    /\ Len(calls) < 2
    /\ \E framework \in frameworks :
           calls' = Append(calls,
                       Call("rule", framework, NoOutcome,
                            rule_based_analysis(framework, resource, now)))
    /\ UNCHANGED <<scan_vars, resource, now, audit_vars>>

\* await analyzer._analyze_resource(framework, resource, scan_config)
AnalyzeResource(frameworks) ==
    /\ Len(calls) < 2
    /\ \E framework \in frameworks, outcome \in Outcomes :
           calls' = Append(calls,
                       Call("analyze", framework, outcome,
                            analyze_resource(framework, resource, outcome,
                                             now)))
    /\ UNCHANGED <<scan_vars, resource, now, audit_vars>>

\* The rule engine alone, on every resource.
InitEngine ==
    /\ ScanIdle
    /\ resource \in Resources
    /\ now = 0
    /\ calls = <<>>
    /\ AuditIdle

NextEngine == Tick \/ RuleBasedAnalysis(Frameworks)

SpecEngine == InitEngine /\ [][NextEngine]_vars

\* The per-resource analysis with its fallback.
InitAnalyze ==
    /\ ScanIdle
    /\ resource \in AnalyzedResources
    /\ now = 0
    /\ calls = <<>>
    /\ AuditIdle

NextAnalyze ==
    \/ Tick
    \/ RuleBasedAnalysis(AnalyzedFrameworks)
    \/ AnalyzeResource(AnalyzedFrameworks)

SpecAnalyze == InitAnalyze /\ [][NextAnalyze]_vars

\* audit_compliance, lines 36-51: the request is read and the inventory made.
StartAudit ==
    /\ pc = "start"
    /\ resources' \in Inventories
    /\ all_findings' = <<>>
    /\ compliance_scores' = EmptyDict
    /\ score_order' = <<>>
    /\ fw_idx' = 1
    /\ res_idx' = 1
    /\ findings' = <<>>
    /\ analysis_log' = <<>>
    /\ pc' = IF compliance_frameworks = <<>> THEN "report" ELSE "analyze"
    /\ UNCHANGED <<scan_vars, resource, now, calls,
                 compliance_frameworks,
                   framework_findings, overall_score, result, reports>>

\* analyze_compliance, lines 34-36: one resource of the current framework.
AnalyzeNext ==
    /\ pc = "analyze"
    /\ res_idx <= Len(resources)
    /\ \E outcome \in AuditOutcomes :
           /\ findings' = findings
                  \o analyze_resource(compliance_frameworks[fw_idx],
                                      resources[res_idx], outcome, now)
           /\ analysis_log' =
                  Append(analysis_log,
                         [failed          |-> falls_back(outcome),
                          analysis_result |-> IF falls_back(outcome) THEN None
                                              ELSE outcome.value,
                          findings        |-> SubSeq(findings',
                                                     Len(findings) + 1,
                                                     Len(findings'))])
    /\ res_idx' = res_idx + 1
    /\ UNCHANGED <<scan_vars, resource, now, calls,
                 pc, compliance_frameworks, resources,
                   fw_idx, framework_findings, all_findings, compliance_scores,
                   score_order, overall_score, result, reports>>

\* analyze_compliance returns; audit_compliance lines 55-63 score the framework.
ScoreFramework ==
    /\ pc = "analyze"
    /\ res_idx > Len(resources)
    /\ framework_findings' = findings
    /\ all_findings' = all_findings \o findings
    /\ compliance_scores' =
           (compliance_frameworks[fw_idx] :> framework_score(findings))
               @@ compliance_scores
    /\ score_order' =
           IF compliance_frameworks[fw_idx] \in DOMAIN compliance_scores
           THEN score_order
           ELSE Append(score_order, compliance_frameworks[fw_idx])
    /\ fw_idx' = fw_idx + 1
    /\ res_idx' = 1
    /\ findings' = <<>>
    /\ analysis_log' = <<>>
    /\ pc' = IF fw_idx = Len(compliance_frameworks) THEN "report" ELSE "analyze"
    /\ UNCHANGED <<scan_vars, resource, now, calls,
                 compliance_frameworks, resources,
                   overall_score, result, reports>>

RECURSIVE SumScores(_, _)
\* sum(compliance_scores.values())
SumScores(scores, keys) ==
    IF keys = {} THEN FracOfInt(0)
    ELSE LET k == CHOOSE x \in keys : TRUE
         IN  FracAdd(scores[k], SumScores(scores, keys \ {k}))

\* Mutant: the sum is divided by the number of requested frameworks.
overall_per_request(scores) ==
    IF DOMAIN scores # {}
    THEN LET total == SumScores(scores, DOMAIN scores)
         IN  Frac(total.num, total.den * Len(compliance_frameworks))
    ELSE FracOfInt(100)

overall(scores) ==
    IF DOMAIN scores # {}
    THEN LET total == SumScores(scores, DOMAIN scores)
         IN  Frac(total.num, total.den * Cardinality(DOMAIN scores))
    ELSE FracOfInt(100)

\* audit_compliance, lines 65-92: the overall score, the report (its upload
\* succeeds or fails inside generate_compliance_report) and the result.
\* Mutant: the report compiler writes the default status into each finding.
FinishAuditStamping ==
    /\ pc = "report"
    /\ overall_score' = overall(compliance_scores)
    /\ \E report_status \in {"COMPLETED", "ERROR"} :
           result' = [status          |-> "COMPLETED",
                      reportGenerated |-> "True",
                      report          |-> report_status]
    /\ all_findings' = [k \in 1..Len(all_findings) |->
                            all_findings[k] @@ [status |-> "OPEN"]]
    /\ pc' = "done"
    /\ UNCHANGED <<scan_vars, resource, now, calls,
                 compliance_frameworks, resources,
                   fw_idx, res_idx, findings, framework_findings,
                   compliance_scores, score_order, analysis_log, reports>>

FinishAudit ==
    /\ pc = "report"
    /\ overall_score' = overall(compliance_scores)
    /\ \E report_status \in {"COMPLETED", "ERROR"} :
           result' = [status          |-> "COMPLETED",
                      reportGenerated |-> "True",
                      report          |-> report_status]
    /\ pc' = "done"
    /\ UNCHANGED <<scan_vars, resource, now, calls,
                 compliance_frameworks, resources,
                   fw_idx, res_idx, findings, framework_findings, all_findings,
                   compliance_scores, score_order, analysis_log, reports>>

Init ==
    /\ ScanIdle
    /\ resource = EmptyDict
    /\ now = 0
    /\ calls = <<>>
    /\ pc = "start"
    /\ compliance_frameworks \in RequestedFrameworks
    /\ resources = <<>>
    /\ fw_idx = 1
    /\ res_idx = 1
    /\ findings = <<>>
    /\ framework_findings = <<>>
    /\ all_findings = <<>>
    /\ compliance_scores = EmptyDict
    /\ score_order = <<>>
    /\ overall_score = FracOfInt(0)
    /\ result = EmptyDict
    /\ analysis_log = <<>>
    /\ reports = <<>>

Next == StartAudit \/ AnalyzeNext \/ ScoreFramework \/ FinishAudit

Spec == Init /\ [][Next]_vars

\* return findings, at the end of analyze_compliance
ReturnFindings ==
    /\ pc = "analyze"
    /\ res_idx > Len(resources)
    /\ framework_findings' = findings
    /\ pc' = "returned"
    /\ UNCHANGED <<scan_vars, resource, now, calls,
                 compliance_frameworks, resources,
                   fw_idx, res_idx, findings, all_findings, compliance_scores,
                   score_order, overall_score, result, analysis_log, reports>>

\* One call analyze_compliance(framework, resources, scan_config): the
\* framework is compliance_frameworks[1].
InitCompliance ==
    /\ ScanIdle
    /\ resource = EmptyDict
    /\ now = 0
    /\ calls = <<>>
    /\ pc = "analyze"
    /\ compliance_frameworks \in {<<framework>> : framework \in Frameworks}
    /\ resources \in Inventories
    /\ fw_idx = 1
    /\ res_idx = 1
    /\ findings = <<>>
    /\ framework_findings = <<>>
    /\ all_findings = <<>>
    /\ compliance_scores = EmptyDict
    /\ score_order = <<>>
    /\ overall_score = FracOfInt(0)
    /\ result = EmptyDict
    /\ analysis_log = <<>>
    /\ reports = <<>>

\* The caller's next lines, main.py 56-67, when the request names one
\* framework: the score of the framework and the overall score.
ScoreReturned ==
    /\ pc = "returned"
    /\ all_findings' = all_findings \o framework_findings
    /\ compliance_scores' =
           (compliance_frameworks[1] :> framework_score(framework_findings))
    /\ score_order' = <<compliance_frameworks[1]>>
    /\ overall_score' = overall(compliance_scores')
    /\ pc' = "scored"
    /\ UNCHANGED <<scan_vars, resource, now, calls,
                 compliance_frameworks, resources,
                   fw_idx, res_idx, findings, framework_findings, result,
                   analysis_log, reports>>

NextCompliance == AnalyzeNext \/ ReturnFindings \/ ScoreReturned

SpecCompliance == InitCompliance /\ [][NextCompliance]_vars

------------------------------------------------------------------------------
(* ComplianceReportGenerator._create_report_content and what it calls.     *)
(* The bullet character of the summary text is written "*".                *)

RECURSIVE Join(_, _)
\* sep.join(strs)
Join(sep, strs) ==
    IF strs = <<>> THEN ""
    ELSE IF Len(strs) = 1 THEN strs[1]
    ELSE strs[1] \o sep \o Join(sep, Tail(strs))

\* The number of tenths in x >= 0 rounded to one decimal, ties to even.
Tenths(x) ==
    LET q == (x.num * 10) \div x.den
        r == (x.num * 10) % x.den
    IN  IF 2 * r > x.den \/ (2 * r = x.den /\ q % 2 = 1) THEN q + 1 ELSE q

\* round(x, 1)
round1(x) == Frac(Tenths(x), 10)

\* f"{x:.1f}"
Format1f(x) == ToString(Tenths(x) \div 10) \o "." \o ToString(Tenths(x) % 10)

WithSeverity(fs, severity) ==
    SelectSeq(fs, LAMBDA f : Get(f, "severity", None) = severity)

findings_by_severity(fs) ==
    [severity \in {"CRITICAL", "HIGH", "MEDIUM", "LOW"} |->
         WithSeverity(fs, severity)]

\* Mutant: a finding without a resourceType is grouped under "None".
findings_by_type_none(fs) ==
    [resource_type \in {Get(fs[i], "resourceType", None) : i \in 1..Len(fs)}
         |-> SelectSeq(fs, LAMBDA f :
                 Get(f, "resourceType", None) = resource_type)]

findings_by_type(fs) ==
    [resource_type \in {Get(fs[i], "resourceType", "Unknown") : i \in 1..Len(fs)}
         |-> SelectSeq(fs, LAMBDA f :
                 Get(f, "resourceType", "Unknown") = resource_type)]

RECURSIVE FrameworkScoreLinesReversed(_, _)
\* Mutant: the score lines are written last key first.
FrameworkScoreLinesReversed(scores, order) ==
    IF order = <<>> THEN ""
    ELSE FrameworkScoreLinesReversed(scores, Tail(order))
             \o "* " \o Head(order) \o ": " \o Format1f(scores[Head(order)])
             \o "/100\n"

RECURSIVE FrameworkScoreLines(_, _)
\* for framework, score in compliance_scores.items(): summary += ...
FrameworkScoreLines(scores, order) ==
    IF order = <<>> THEN ""
    ELSE "* " \o Head(order) \o ": " \o Format1f(scores[Head(order)])
             \o "/100\n" \o FrameworkScoreLines(scores, Tail(order))

\* The text before and after strip() differ in the leading "\n        " and
\* the trailing "\n        ", which are left out here.
generate_executive_summary(overall_score_, by_severity, scores, order, frameworks) ==
    LET critical_count == Len(by_severity["CRITICAL"])
        high_count     == Len(by_severity["HIGH"])
        total          == Len(by_severity["CRITICAL"]) + Len(by_severity["HIGH"])
                            + Len(by_severity["MEDIUM"]) + Len(by_severity["LOW"])
    IN  "EXECUTIVE SUMMARY\n"
        \o "\n"
        \o "        This compliance audit report presents the results of a comprehensive security assessment\n"
        \o "        conducted against " \o Join(", ", frameworks) \o " requirements.\n"
        \o "\n"
        \o "        OVERALL COMPLIANCE SCORE: " \o Format1f(overall_score_) \o "/100\n"
        \o "\n"
        \o "        KEY FINDINGS:\n"
        \o "        * " \o ToString(critical_count) \o " Critical severity findings requiring immediate attention\n"
        \o "        * " \o ToString(high_count) \o " High severity findings requiring prompt remediation\n"
        \o "        * Total of " \o ToString(total) \o " compliance issues identified\n"
        \o "\n"
        \o "        FRAMEWORK SCORES:\n"
        \o "        "
        \o FrameworkScoreLines(scores, order)
        \o (IF critical_count > 0
            THEN "\n"
                 \o "        IMMEDIATE ACTION REQUIRED:\n"
                 \o "        " \o ToString(critical_count) \o " critical findings have been identified that pose significant security risks\n"
                 \o "        and require immediate remediation to maintain compliance."
            ELSE "\n"
                 \o "        No critical findings were identified in this audit. Continue monitoring and\n"
                 \o "        regular assessments to maintain compliance posture.")

detailed_finding(i, finding) ==
    [findingNumber        |-> i,
     title                |-> Get(finding, "title", "Untitled Finding"),
     severity             |-> Get(finding, "severity", "UNKNOWN"),
     resourceType         |-> Get(finding, "resourceType", "Unknown"),
     resourceId           |-> Get(finding, "resourceId", "Unknown"),
     description          |-> Get(finding, "description", "No description provided"),
     complianceFrameworks |-> Get(finding, "complianceFrameworks", <<>>),
     riskScore            |-> Get(finding, "riskScore", 0),
     remediationSteps     |-> Get(finding, "remediationSteps", <<>>),
     recommendations      |-> Get(finding, "recommendations", ""),
     status               |-> Get(finding, "status", "OPEN")]

\* Mutant: the findings are numbered from 0.
generate_detailed_findings_from_zero(fs) ==
    [i \in 1..Len(fs) |-> detailed_finding(i - 1, fs[i])]

generate_detailed_findings(fs) ==
    [i \in 1..Len(fs) |-> detailed_finding(i, fs[i])]

general_recommendations ==
    <<"Implement automated compliance monitoring to detect issues proactively",
      "Establish regular compliance audit schedules",
      "Train development teams on compliance requirements",
      "Implement automated remediation for common issues">>

critical_recommendation(n) ==
    "PRIORITY 1: Address " \o ToString(n) \o " critical findings immediately"

high_recommendation(n) ==
    "PRIORITY 2: Remediate " \o ToString(n)
        \o " high-severity findings within 30 days"

\* Mutant: the high-severity recommendation is the elif of the critical one.
generate_recommendations_elif(fs) ==
    LET critical_findings == WithSeverity(fs, "CRITICAL")
        high_findings     == WithSeverity(fs, "HIGH")
    IN  (IF critical_findings # <<>>
         THEN <<critical_recommendation(Len(critical_findings))>>
         ELSE IF high_findings # <<>>
         THEN <<high_recommendation(Len(high_findings))>>
         ELSE <<>>)
        \o general_recommendations

generate_recommendations(fs) ==
    LET critical_findings == WithSeverity(fs, "CRITICAL")
        high_findings     == WithSeverity(fs, "HIGH")
    IN  (IF critical_findings # <<>>
         THEN <<critical_recommendation(Len(critical_findings))>>
         ELSE <<>>)
        \o (IF high_findings # <<>>
            THEN <<high_recommendation(Len(high_findings))>>
            ELSE <<>>)
        \o general_recommendations

\* Mutant: the report's own id is stored as the id of the audit run as well.
report_metadata_one_id(audit_run_id_, fs, overall_score_, frameworks, resources_scanned, report_id, t) ==
    [reportId               |-> report_id,
     auditRunId             |-> report_id,
     generatedAt            |-> t,
     frameworks             |-> frameworks,
     resourcesScanned       |-> resources_scanned,
     totalFindings          |-> Len(fs),
     overallComplianceScore |-> round1(overall_score_)]

\* report_id is what uuid.uuid4() returns, t what datetime.utcnow() returns.
report_metadata(audit_run_id_, fs, overall_score_, frameworks, resources_scanned, report_id, t) ==
    [reportId               |-> report_id,
     auditRunId             |-> audit_run_id_,
     generatedAt            |-> t,
     frameworks             |-> frameworks,
     resourcesScanned       |-> resources_scanned,
     totalFindings          |-> Len(fs),
     overallComplianceScore |-> round1(overall_score_)]

create_report_content(audit_run_id_, fs, scores, order, overall_score_, frameworks, resources_scanned, report_id, t) ==
    LET by_severity == findings_by_severity(fs)
        by_type     == findings_by_type(fs)
    IN  [metadata         |-> report_metadata(audit_run_id_, fs, overall_score_,
                                              frameworks, resources_scanned,
                                              report_id, t),
         executiveSummary |-> generate_executive_summary(overall_score_,
                                  by_severity, scores, order, frameworks),
         complianceScores |-> scores,
         findingsSummary  |->
             [bySeverity     |-> [severity \in DOMAIN by_severity |->
                                      Len(by_severity[severity])],
              byResourceType |-> [resource_type \in DOMAIN by_type |->
                                      Len(by_type[resource_type])]],
         detailedFindings |-> generate_detailed_findings(fs),
         recommendations  |-> generate_recommendations(fs),
         appendices       |->
             [scanConfiguration  |-> "Standard compliance scan configuration",
              scoringMethodology |-> "Risk-based scoring with 0-100 scale",
              reportVersion      |-> "1.0.0"]]

------------------------------------------------------------------------------
(* Report compilation at the end of an audit: SpecReport.  The audit has   *)
(* analysed one bucket for the requested frameworks, the analyzer answered *)
(* with candidates, and the scores are those of the scoring loop.          *)

AuditRunId == "audit-1"

\* Values of uuid.uuid4().
ReportIds == {"uuid-1", "uuid-2"}

ReportFrameworks ==
    {<<>>, <<"GDPR">>, <<"GDPR", "SOC2">>, <<"SOC2", "GDPR">>,
     <<"GDPR", "GDPR">>}

ReportResource ==
    [type |-> "S3_BUCKET", id |-> "b1",
     config |-> [publicAccess |-> "True", encryption |-> "False"]]

\* What the analyzer's candidates set: nothing, or a severity and riskScore.
ReportCandidates ==
    {EmptyDict,
     [severity |-> "CRITICAL", riskScore |-> 90],
     [severity |-> "HIGH", riskScore |-> 75],
     [severity |-> "LOW", riskScore |-> 20],
     [severity |-> "BOGUS", riskScore |-> 150]}

MaxReportFindings == 2

\* The candidates the analyzer returned, each with the index of the
\* framework it was returned for: the frameworks are analysed in order.
AnalyzerAnswers(frameworks) ==
    {a \in UNION {[1..n -> (1..Len(frameworks)) \X ReportCandidates] :
                      n \in 0..MaxReportFindings} :
         \A i \in 1..(Len(a) - 1) : a[i][1] <= a[i + 1][1]}

\* The findings analyze_compliance made of the answers a.
FindingsOf(frameworks, a) ==
    [i \in 1..Len(a) |->
         structured_finding(frameworks[a[i][1]], ReportResource, a[i][2], 0)]

\* The answers of the pass-th run of the loop of audit_compliance.
PassAnswers(a, pass) == SelectSeq(a, LAMBDA answer : answer[1] = pass)

\* The run of the loop that assigns compliance_scores[framework] last.
LastPass(frameworks, framework) ==
    CHOOSE i \in 1..Len(frameworks) :
        /\ frameworks[i] = framework
        /\ \A j \in (i + 1)..Len(frameworks) : frameworks[j] # framework

RECURSIVE KeyOrder(_)
\* The keys of compliance_scores in the order of their first assignment.
KeyOrder(frameworks) ==
    IF frameworks = <<>> THEN <<>>
    ELSE LET front == KeyOrder(SubSeq(frameworks, 1, Len(frameworks) - 1))
             last  == frameworks[Len(frameworks)]
         IN  IF InList(last, front) THEN front ELSE Append(front, last)

\* self._create_report_content(audit_run_id, findings, ...)
CreateReportContent ==
    /\ pc = "compile"
    /\ Len(reports) < 2
    /\ \E report_id \in ReportIds :
           reports' = Append(reports,
                          create_report_content(AuditRunId, all_findings,
                              compliance_scores, score_order, overall_score,
                              compliance_frameworks, Len(resources),
                              report_id, now))
    /\ UNCHANGED <<scan_vars, resource, now, calls,
                 pc, compliance_frameworks, resources,
                   fw_idx, res_idx, findings, framework_findings, all_findings,
                   compliance_scores, score_order, overall_score, result,
                   analysis_log>>

InitReport ==
    /\ ScanIdle
    /\ resource = EmptyDict
    /\ now = 0
    /\ calls = <<>>
    /\ pc = "compile"
    /\ compliance_frameworks \in ReportFrameworks
    /\ resources \in {<<>>, <<ReportResource>>}
    /\ fw_idx = Len(compliance_frameworks) + 1
    /\ res_idx = 1
    /\ findings = <<>>
    /\ \E a \in AnalyzerAnswers(compliance_frameworks) :
           /\ resources = <<>> => a = <<>>
           /\ all_findings = FindingsOf(compliance_frameworks, a)
           /\ framework_findings =
                  FindingsOf(compliance_frameworks,
                             PassAnswers(a, Len(compliance_frameworks)))
           /\ compliance_scores =
                  [framework \in {compliance_frameworks[i] :
                                      i \in 1..Len(compliance_frameworks)} |->
                       framework_score(
                           FindingsOf(compliance_frameworks,
                               PassAnswers(a, LastPass(compliance_frameworks,
                                                       framework))))]
    /\ score_order = KeyOrder(compliance_frameworks)
    /\ overall_score = overall(compliance_scores)
    /\ result = EmptyDict
    /\ analysis_log = <<>>
    /\ reports = <<>>

NextReport == Tick \/ CreateReportContent

SpecReport == InitReport /\ [][NextReport]_vars

------------------------------------------------------------------------------
(* _create_report_content called on finding dicts of any shape: SpecContent *)

\* Finding dicts with and without the keys the report reads with a default.
DirectFindings ==
    {[title |-> "Bucket is public", severity |-> "HIGH",
      resourceType |-> "S3_BUCKET", resourceId |-> "b1", riskScore |-> 75],
     [title |-> "Role is too wide", severity |-> "CRITICAL",
      resourceType |-> "IAM_ROLE", resourceId |-> "r1", riskScore |-> 90],
     [title |-> "No type", severity |-> "LOW", resourceId |-> "x1",
      riskScore |-> 20],
     [severity |-> "MEDIUM", resourceType |-> "Unknown"],
     EmptyDict}

InitContent ==
    /\ ScanIdle
    /\ resource = EmptyDict
    /\ now = 0
    /\ calls = <<>>
    /\ pc = "compile"
    /\ compliance_frameworks = <<"GDPR">>
    /\ resources \in {<<>>, <<ReportResource>>}
    /\ fw_idx = 2
    /\ res_idx = 1
    /\ findings = <<>>
    /\ all_findings \in UNION {[1..n -> DirectFindings] :
                                   n \in 0..MaxReportFindings}
    /\ framework_findings = all_findings
    /\ compliance_scores = [GDPR |-> framework_score(all_findings)]
    /\ score_order = <<"GDPR">>
    /\ overall_score = overall(compliance_scores)
    /\ result = EmptyDict
    /\ analysis_log = <<>>
    /\ reports = <<>>

SpecContent == InitContent /\ [][NextReport]_vars

-----------------------------------------------------------------------------
(* lambda_handler of trigger_scan.py: SpecTrigger *)

\* audit_run_id before line 34 has assigned it.
Unbound == "unbound"

\* The id of a run requested earlier, and the id uuid.uuid4() returns, which
\* no record holds yet.
RunId == "run-1"
NewRunId == "uuid-4"

\* json.loads on the bodies the handler is sent: an object, an array, and
\* text that is not JSON.
json_loads(s) ==
    IF s = "{}" THEN [raises |-> FALSE, type |-> "dict", value |-> EmptyDict]
    ELSE IF s = "{\"auditRunId\": \"run-1\"}"
         THEN [raises |-> FALSE, type |-> "dict",
               value |-> [auditRunId |-> RunId]]
    ELSE IF s = "[]" THEN [raises |-> FALSE, type |-> "list", value |-> <<>>]
    ELSE [raises |-> TRUE]

\* Events from API Gateway (with a body) and direct invocations.
TriggerEvents ==
    {EmptyDict,
     [auditRunId |-> RunId],
     [auditRunId |-> ""],
     [body |-> "{}"],
     [body |-> "{\"auditRunId\": \"run-1\"}"],
     [body |-> "[]"],
     [body |-> "{"]}

\* Lines 27-34: the body of the event and the auditRunId it names; raises
\* when the body is not JSON, and on  .get  of a body that is a list.
parse_event(ev) ==
    IF "body" \in DOMAIN ev
    THEN LET parsed == json_loads(ev.body)
         IN  IF parsed.raises THEN [raises |-> TRUE]
             ELSE IF parsed.type = "list" THEN [raises |-> TRUE]
             ELSE [raises |-> FALSE,
                   audit_run_id |-> Get(parsed.value, "auditRunId", None)]
    ELSE [raises |-> FALSE, audit_run_id |-> Get(ev, "auditRunId", None)]

\* The record of RunId before the handler runs, when there is one.
ExistingRuns ==
    {[AuditRunId |-> RunId, Status |-> "PENDING"],
     [AuditRunId |-> RunId, Status |-> "RUNNING"],
     [AuditRunId |-> RunId, Status |-> "ERROR", ErrorMessage |-> "error"],
     [AuditRunId |-> RunId, Status |-> "COMPLETED", FindingsCount |-> 4]}

\* table.put_item(Item=item): the item replaces the record of its key.
put_item(table, key, item) ==
    [k \in DOMAIN table \cup {key} |-> IF k = key THEN item ELSE table[k]]

\* table.update_item(Key=..., UpdateExpression='SET ...'): the attributes
\* are set on the record of the key, which is created if there is none.
update_item(table, key, attrs) ==
    put_item(table, key, attrs @@ Get(table, key, [AuditRunId |-> key]))

mock_resources ==
    <<[type |-> "S3_BUCKET", id |-> "example-bucket-123"],
      [type |-> "EC2_INSTANCE", id |-> "i-1234567890abcdef0"],
      [type |-> "IAM_ROLE", id |-> "overprivileged-role"],
      [type |-> "LAMBDA_FUNCTION", id |-> "vulnerable-function"]>>

\* The severities random.choice may give a finding of a resource type.
severity_choices(type) ==
    CASE type = "S3_BUCKET" -> {"HIGH", "CRITICAL"}
      [] type = "EC2_INSTANCE" -> {"MEDIUM", "HIGH"}
      [] type = "IAM_ROLE" -> {"CRITICAL"}
      [] type = "LAMBDA_FUNCTION" -> {"HIGH"}

\* The findings lists simulate_compliance_scan may return: one finding per
\* mock resource, each of which meets the condition of its branch.
simulate_compliance_scan ==
    {[i \in 1..Len(mock_resources) |->
         [severity      |-> sev[i],
          resource_type |-> mock_resources[i].type,
          resource_id   |-> mock_resources[i].id]] :
     sev \in {f \in [1..Len(mock_resources) -> {"CRITICAL", "HIGH", "MEDIUM"}] :
                 \A i \in 1..Len(mock_resources) :
                     f[i] \in severity_choices(mock_resources[i].type)}}

\* len([f for f in findings if f['severity'] == severity])
snapshot_count(fs, severity) ==
    Cardinality({i \in 1..Len(fs) : fs[i].severity = severity})

\* Lines 17-36: the clients and tables are made and the event is read.  A
\* missing table name in the environment raises before audit_run_id is
\* assigned, as a body that does not parse does.
ParseEvent ==
    /\ scan_pc = "start"
    /\ \/ /\ ~parse_event(event).raises
          /\ audit_run_id' = parse_event(event).audit_run_id
          /\ scan_pc' = "mark"
       \/ /\ audit_run_id' = Unbound
          /\ scan_pc' = "except"
    /\ UNCHANGED <<resource, now, calls, audit_vars, event, audit_runs_table,
                   scan_results, findings_table, snapshots_table,
                   findings_count, response>>

\* Lines 39-68: a new run is recorded as RUNNING under a fresh id, a run
\* named by the event is set to RUNNING.  Either write may raise.
MarkRunning ==
    /\ scan_pc = "mark"
    /\ audit_run_id' = IF ~Truthy(audit_run_id) THEN NewRunId ELSE audit_run_id
    /\ \/ /\ audit_runs_table' =
                 IF ~Truthy(audit_run_id)
                 THEN put_item(audit_runs_table, NewRunId,
                               [AuditRunId |-> NewRunId, Status |-> "RUNNING"])
                 ELSE update_item(audit_runs_table, audit_run_id,
                                  [Status |-> "RUNNING"])
          /\ scan_pc' = "scan"
       \/ /\ audit_runs_table' = audit_runs_table
          /\ scan_pc' = "except"
    /\ UNCHANGED <<resource, now, calls, audit_vars, event, scan_results,
                   findings_table, snapshots_table, findings_count, response>>

\* Lines 77-80
SimulateScan ==
    /\ scan_pc = "scan"
    /\ scan_results' \in simulate_compliance_scan
    /\ findings_count' = 0
    /\ scan_pc' = "store"
    /\ UNCHANGED <<resource, now, calls, audit_vars, event, audit_run_id,
                   audit_runs_table, findings_table, snapshots_table,
                   response>>

\* Lines 81-101: one turn of the loop; put_item may raise.
StoreFinding ==
    /\ scan_pc = "store"
    /\ findings_count < Len(scan_results)
    /\ \/ /\ findings_table' = Append(findings_table,
                 [FindingId |-> "finding-" \o audit_run_id \o "-"
                                    \o ToString(findings_count),
                  AuditRunId |-> audit_run_id,
                  Severity   |-> scan_results[findings_count + 1].severity,
                  ResourceId |-> scan_results[findings_count + 1].resource_id,
                  Status     |-> "OPEN"])
          /\ findings_count' = findings_count + 1
          /\ scan_pc' = scan_pc
       \/ /\ scan_pc' = "except"
          /\ UNCHANGED <<findings_table, findings_count>>
    /\ UNCHANGED <<resource, now, calls, audit_vars, event, audit_run_id,
                   audit_runs_table, scan_results, snapshots_table, response>>

\* Lines 104-118: after the loop the snapshot is put; put_item may raise.
PutSnapshot ==
    /\ scan_pc = "store"
    /\ findings_count = Len(scan_results)
    /\ \/ /\ snapshots_table' = Append(snapshots_table,
                 [SnapshotId       |-> "snapshot-" \o audit_run_id,
                  AuditRunId       |-> audit_run_id,
                  TotalFindings    |-> findings_count,
                  CriticalFindings |-> snapshot_count(scan_results, "CRITICAL"),
                  HighFindings     |-> snapshot_count(scan_results, "HIGH"),
                  MediumFindings   |-> snapshot_count(scan_results, "MEDIUM"),
                  LowFindings      |-> snapshot_count(scan_results, "LOW")])
          /\ scan_pc' = "complete"
       \/ /\ snapshots_table' = snapshots_table
          /\ scan_pc' = "except"
    /\ UNCHANGED <<resource, now, calls, audit_vars, event, audit_run_id,
                   audit_runs_table, scan_results, findings_table,
                   findings_count, response>>

\* Lines 121-148: the run is set to COMPLETED with its FindingsCount and the
\* handler returns 200; update_item may raise.
CompleteRun ==
    /\ scan_pc = "complete"
    /\ \/ /\ audit_runs_table' = update_item(audit_runs_table, audit_run_id,
                 [Status |-> "COMPLETED", FindingsCount |-> findings_count])
          /\ response' = [statusCode    |-> 200,
                          auditRunId    |-> audit_run_id,
                          status        |-> "COMPLETED",
                          findingsCount |-> findings_count]
          /\ scan_pc' = "returned"
       \/ /\ scan_pc' = "except"
          /\ UNCHANGED <<audit_runs_table, response>>
    /\ UNCHANGED <<resource, now, calls, audit_vars, event, audit_run_id,
                   scan_results, findings_table, snapshots_table,
                   findings_count>>

\* Lines 150-173: the except branch.  When audit_run_id is a local the run
\* is set to ERROR; if that update raises, the inner  except: pass  drops
\* the exception.  The handler returns 500 in every case.
HandleError ==
    /\ scan_pc = "except"
    /\ IF audit_run_id # Unbound
       THEN \/ audit_runs_table' = update_item(audit_runs_table, audit_run_id,
                   [Status |-> "ERROR", ErrorMessage |-> "error"])
            \/ audit_runs_table' = audit_runs_table
       ELSE audit_runs_table' = audit_runs_table
    /\ response' = [statusCode |-> 500]
    /\ scan_pc' = "returned"
    /\ UNCHANGED <<resource, now, calls, audit_vars, event, audit_run_id,
                   scan_results, findings_table, snapshots_table,
                   findings_count>>

\* One invocation of lambda_handler, on any event, with or without a record
\* of RunId in the table.
InitTrigger ==
    /\ resource = EmptyDict
    /\ now = 0
    /\ calls = <<>>
    /\ AuditIdle
    /\ scan_pc = "start"
    /\ event \in TriggerEvents
    /\ audit_run_id = Unbound
    /\ audit_runs_table \in {EmptyDict} \cup {(RunId :> r) : r \in ExistingRuns}
    /\ scan_results = <<>>
    /\ findings_table = <<>>
    /\ snapshots_table = <<>>
    /\ findings_count = 0
    /\ response = EmptyDict

NextTrigger ==
    \/ ParseEvent
    \/ MarkRunning
    \/ SimulateScan
    \/ StoreFinding
    \/ PutSnapshot
    \/ CompleteRun
    \/ HandleError

SpecTrigger == InitTrigger /\ [][NextTrigger]_vars

-----------------------------------------------------------------------------
(* Properties of the rule engine *)

RuleCalls == {i \in 1..Len(calls) : calls[i].op = "rule"}

HasType(ty) == "type" \in DOMAIN resource /\ resource["type"] = ty

AttrSet(k) ==
    "config" \in DOMAIN resource /\ k \in DOMAIN resource["config"]

AttrIn(k, values) == AttrSet(k) /\ resource["config"][k] \in values

\* The attribute values that count as true and as false.
TrueValues == {"True", "yes"}

FalseValues == {"False", "None"}

\* The severity and riskScore of each finding, in order.
Summaries(fs) == [i \in 1..Len(fs) |-> <<fs[i].severity, fs[i].riskScore>>]

ExpectedS3(public, unencrypted) ==
    (IF public THEN << <<"HIGH", 75>> >> ELSE <<>>)
    \o (IF unencrypted THEN << <<"MEDIUM", 60>> >> ELSE <<>>)

IsEncryptionFinding(f) ==
    /\ f.severity = "MEDIUM"
    /\ f.riskScore = 60
    /\ Contains(f.title, "S3 Bucket Encryption")

\* C1 as stated: for an S3_BUCKET, the public-access finding (HIGH, 75) is
\* returned exactly when config.publicAccess is set and true and the
\* encryption finding (MEDIUM, 60) exactly when config.encryption is set and
\* false, each independently of the other, public access first.
C1_Original ==
    HasType("S3_BUCKET") =>
        \A i \in RuleCalls :
            Summaries(calls[i].findings)
                = ExpectedS3(AttrIn("publicAccess", TrueValues),
                             AttrIn("encryption", FalseValues))

\* C1 as amended: for an S3_BUCKET and every framework, the public-access
\* finding (HIGH, 75) is returned exactly when config.publicAccess is set to
\* a true value, and the encryption finding (MEDIUM, 60) exactly when
\* config.encryption is false, null or not set; the two are independent, so
\* both conditions give exactly the two findings in that order, one
\* condition gives exactly its finding and neither gives none.
C1_S3Independent ==
    HasType("S3_BUCKET") =>
        \A i \in RuleCalls :
            Summaries(calls[i].findings)
                = ExpectedS3(AttrIn("publicAccess", TrueValues),
                             ~AttrSet("encryption")
                                 \/ AttrIn("encryption", FalseValues))

C1_Witness ==
    /\ HasType("S3_BUCKET")
    /\ AttrIn("publicAccess", {"True"})
    /\ AttrIn("encryption", {"False"})
    /\ \E i \in RuleCalls :
           Summaries(calls[i].findings) = << <<"HIGH", 75>>, <<"MEDIUM", 60>> >>

\* C2 as stated: for an S3_BUCKET the encryption finding is emitted if and
\* only if config.encryption is set and false; a missing attribute gives
\* none.
C2_Original ==
    HasType("S3_BUCKET") =>
        \A i \in RuleCalls :
            (\E k \in 1..Len(calls[i].findings) :
                 IsEncryptionFinding(calls[i].findings[k]))
            <=> AttrIn("encryption", FalseValues)

\* C2 as amended: for an S3_BUCKET the encryption finding (MEDIUM, 60) is
\* emitted if and only if config.encryption is false, null or not set at
\* all; only a bucket whose encryption is set to a true value gets none.
C2_EncryptionFinding ==
    HasType("S3_BUCKET") =>
        \A i \in RuleCalls :
            (\E k \in 1..Len(calls[i].findings) :
                 IsEncryptionFinding(calls[i].findings[k]))
            <=> ~AttrIn("encryption", TrueValues)

C2_Witness ==
    /\ HasType("S3_BUCKET")
    /\ ~AttrSet("encryption")
    /\ \E i \in RuleCalls :
           \E k \in 1..Len(calls[i].findings) :
               IsEncryptionFinding(calls[i].findings[k])

\* C3: for an IAM_ROLE and every framework the rule engine returns exactly
\* one finding, CRITICAL with riskScore 90, when "*" is an element of
\* config.permissions, and none otherwise (permissions absent or empty too).
C3_IamWildcard ==
    HasType("IAM_ROLE") =>
        \A i \in RuleCalls :
            Summaries(calls[i].findings)
                = IF AttrSet("permissions")
                     /\ \E k \in 1..Len(resource["config"]["permissions"]) :
                            resource["config"]["permissions"][k] = "*"
                  THEN << <<"CRITICAL", 90>> >>
                  ELSE <<>>

C3_Witness ==
    /\ HasType("IAM_ROLE")
    /\ AttrIn("permissions", {<<"s3:*", "*">>})
    /\ \E i \in RuleCalls : Len(calls[i].findings) = 1

\* The names of VarNames that hold password, secret, key or token when
\* letter case is ignored.
SensitiveNames == {"DB_PASSWORD", "auth_token", "SecretKey"}

\* C4: for a LAMBDA_FUNCTION the rule engine returns exactly one finding
\* (HIGH, 70) when at least one environment-variable name holds one of the
\* four patterns case-insensitively, however many names or patterns match,
\* and none otherwise; the result depends on the names only, not the values.
C4_LambdaSensitive ==
    HasType("LAMBDA_FUNCTION") =>
        \A i \in RuleCalls :
            Summaries(calls[i].findings)
                = IF AttrSet("environmentVariables")
                     /\ DOMAIN resource["config"]["environmentVariables"]
                            \cap SensitiveNames # {}
                  THEN << <<"HIGH", 70>> >>
                  ELSE <<>>

C4_Witness ==
    /\ HasType("LAMBDA_FUNCTION")
    /\ AttrSet("environmentVariables")
    /\ DOMAIN resource["config"]["environmentVariables"]
           = {"DB_PASSWORD", "SecretKey"}
    /\ \E i \in RuleCalls : Len(calls[i].findings) = 1

PolicyTable ==
    {<<"S3_BUCKET", "HIGH", 75>>, <<"S3_BUCKET", "MEDIUM", 60>>,
     <<"EC2_INSTANCE", "MEDIUM", 50>>, <<"IAM_ROLE", "CRITICAL", 90>>,
     <<"LAMBDA_FUNCTION", "HIGH", 70>>}

\* C5: every finding of the rule engine has a (resourceType, severity,
\* riskScore) triple that is a row of the policy table, and a resource of
\* any type other than the four of the table yields no finding.
C5_PolicyTable ==
    \A i \in RuleCalls :
        /\ \A k \in 1..Len(calls[i].findings) :
               LET f == calls[i].findings[k]
               IN  <<f.resourceType, f.severity, f.riskScore>> \in PolicyTable
        /\ (\A row \in PolicyTable : ~HasType(row[1]))
               => calls[i].findings = <<>>

C5_Witness ==
    /\ HasType("EC2_INSTANCE")
    /\ AttrIn("publicIp", {"True"})
    /\ \E i \in RuleCalls :
           /\ Len(calls[i].findings) = 1
           /\ calls[i].findings[1].riskScore = 50

FindingFields ==
    {"title", "description", "severity", "resourceType", "resourceId",
     "complianceFrameworks", "riskScore", "remediationSteps", "requirement",
     "createdAt"}

\* Two finding sequences of equal length whose findings agree off `free`.
SameExcept(fs1, fs2, free) ==
    /\ Len(fs1) = Len(fs2)
    /\ \A k \in 1..Len(fs1) :
           \A field \in FindingFields \ free : fs1[k][field] = fs2[k][field]

\* C6 as stated: for two frameworks the rule engine returns findings that
\* differ in complianceFrameworks and requirement (and createdAt) only.
C6_Original ==
    \A i, j \in RuleCalls :
        SameExcept(calls[i].findings, calls[j].findings,
                   {"complianceFrameworks", "requirement", "createdAt"})

\* C6 as amended: for every resource and every two frameworks the rule
\* engine returns the same number of findings in the same order, and the
\* i-th findings are equal on every field other than title,
\* complianceFrameworks and requirement (and createdAt): the framework
\* changes the title as well as the tag and the requirement text.
C6_FrameworkIndependent ==
    \A i, j \in RuleCalls :
        SameExcept(calls[i].findings, calls[j].findings,
                   {"title", "complianceFrameworks", "requirement",
                    "createdAt"})

C6_Witness ==
    \E i, j \in RuleCalls :
        /\ calls[i].framework # calls[j].framework
        /\ Len(calls[i].findings) = 2
        /\ calls[i].findings[1].title # calls[j].findings[1].title

\* C8 as stated: a resource with no type or with no id yields no finding
\* from the rule engine, for every framework and config.
C8_Malformed ==
    ("type" \notin DOMAIN resource \/ "id" \notin DOMAIN resource) =>
        \A i \in RuleCalls : calls[i].findings = <<>>

-----------------------------------------------------------------------------
(* Properties of the per-resource analysis: SpecAnalyze *)

AnalyzeCalls == {i \in 1..Len(calls) : calls[i].op = "analyze"}

\* C7 as stated: two runs of _analyze_resource on the same resource and
\* framework yield findings equal on every field except createdAt.
C7_Original ==
    \A i, j \in AnalyzeCalls :
        calls[i].framework = calls[j].framework
            => SameExcept(calls[i].findings, calls[j].findings, {"createdAt"})

\* C7 as amended: two runs on the same resource and framework yield finding
\* sequences of equal length, equal on every field except createdAt, when
\* both are runs of the rule engine, or both are runs of _analyze_resource
\* in which the analyzer call ends the same way (fails both times, or
\* returns the same output both times).
C7_Deterministic ==
    \A i, j \in 1..Len(calls) :
        (/\ calls[i].framework = calls[j].framework
         /\ calls[i].op = calls[j].op
         /\ calls[i].outcome = calls[j].outcome)
            => SameExcept(calls[i].findings, calls[j].findings, {"createdAt"})

C7_Witness ==
    \E i, j \in AnalyzeCalls :
        /\ calls[i].framework = calls[j].framework
        /\ calls[i].outcome = calls[j].outcome
        /\ calls[i].outcome.kind = "result"
        /\ Len(calls[i].findings) = 2
        /\ calls[i].findings[1].createdAt # calls[j].findings[1].createdAt

\* Analyzer calls that returned parsed JSON.
AnsweredCalls == {i \in AnalyzeCalls : calls[i].outcome.kind = "result"}

ListCalls == {i \in AnsweredCalls : calls[i].outcome.value.json = "list"}

\* Analyzer calls that returned a list of records only.
RecordCalls ==
    {i \in ListCalls :
         \A k \in 1..Len(calls[i].outcome.value.items) :
             calls[i].outcome.value.items[k].json = "object"}

\* C14 as stated: when the analyzer's output parses to something that is no
\* list, the findings of the resource are the rule engine's output.
C14_NotAList ==
    \A i \in AnsweredCalls \ ListCalls :
        SameExcept(calls[i].findings,
                   rule_based_analysis(calls[i].framework, resource, now),
                   {"createdAt"})

Severities == {"LOW", "MEDIUM", "HIGH", "CRITICAL"}

\* C15 as stated: every finding returned, from an analyzer candidate or from
\* the rule engine, has a severity among LOW, MEDIUM, HIGH, CRITICAL and an
\* integer riskScore in [0, 100].
C15_ValidFindings ==
    \A i \in 1..Len(calls) :
        \A k \in 1..Len(calls[i].findings) :
            /\ calls[i].findings[k].severity \in Severities
            /\ calls[i].findings[k].riskScore \in 0..100

\* C16 as stated: when the analyzer returns a list of candidates, every
\* valid candidate of the list becomes a finding of the resource, whatever
\* the other candidates of the list are.
C16_OthersKept ==
    \A i \in ListCalls :
        \A k \in 1..Len(calls[i].outcome.value.items) :
            calls[i].outcome.value.items[k] = JsonObject(FullCandidate)
                => \E j \in 1..Len(calls[i].findings) :
                       /\ calls[i].findings[j].title = FullCandidate.title
                       /\ calls[i].findings[j].severity = FullCandidate.severity
                       /\ calls[i].findings[j].riskScore = FullCandidate.riskScore

\* The fields of a finding the normalizer reads from the candidate.
CandidateFields ==
    {"title", "description", "severity", "riskScore", "remediationSteps",
     "requirement"}

PolicyDefaults(framework) ==
    [severity         |-> "MEDIUM",
     riskScore        |-> 50,
     remediationSteps |-> <<>>,
     requirement      |-> framework \o " requirement"]

\* The i-th finding of call c against the i-th candidate: the fields in
\* `kept` the candidate sets are as the candidate gives them, and the four
\* fields with a policy default the candidate leaves unset have the default.
Normalized(c, i, kept) ==
    LET candidate == c.outcome.value.items[i].fields
        finding   == c.findings[i]
    IN  /\ \A field \in kept \cap DOMAIN candidate :
               finding[field] = candidate[field]
        /\ \A field \in DOMAIN PolicyDefaults(c.framework) \ DOMAIN candidate :
               finding[field] = PolicyDefaults(c.framework)[field]

\* C17 as stated: a list of k candidate records gives k findings in the
\* candidates' order, with the policy defaults for unset fields, and every
\* finding field the candidate sets kept as given.
C17_Original ==
    \A i \in RecordCalls :
        /\ Len(calls[i].findings) = Len(calls[i].outcome.value.items)
        /\ \A k \in 1..Len(calls[i].findings) :
               Normalized(calls[i], k, FindingFields \ {"createdAt"})

\* C17 as amended: a list of k candidate records gives k findings in the
\* candidates' order; in each, title, description, severity, riskScore,
\* remediationSteps and requirement are kept when the candidate sets them,
\* the unset ones of severity, riskScore, remediationSteps and requirement
\* are MEDIUM, 50, empty and "<framework> requirement"; resourceType and
\* resourceId are those of the resource and complianceFrameworks is the
\* framework alone, whatever the candidate sets for them.
C17_Normalizer ==
    \A i \in RecordCalls :
        /\ Len(calls[i].findings) = Len(calls[i].outcome.value.items)
        /\ \A k \in 1..Len(calls[i].findings) :
               /\ Normalized(calls[i], k, CandidateFields)
               /\ calls[i].findings[k].resourceType
                      = Get(resource, "type", "Unknown")
               /\ calls[i].findings[k].resourceId
                      = Get(resource, "id", "Unknown")
               /\ calls[i].findings[k].complianceFrameworks
                      = <<calls[i].framework>>

C17_Witness ==
    \E i \in RecordCalls :
        /\ calls[i].outcome.value.items
               = <<JsonObject(EmptyDict), JsonObject(FullCandidate)>>
        /\ Len(calls[i].findings) = 2
        /\ calls[i].findings[1].severity = "MEDIUM"
        /\ calls[i].findings[1].requirement = "GDPR requirement"
        /\ calls[i].findings[2].severity = "HIGH"
        /\ calls[i].findings[2].resourceId = "b1"

\* C28: every finding of a call for a resource that carries a type and an
\* id, from the rule engine or from an analyzer candidate, has
\* complianceFrameworks equal to the framework of the call alone, and the
\* resourceType and resourceId of the resource, whatever the candidate sets.
C28_TagAndIdentity ==
    ({"type", "id"} \subseteq DOMAIN resource) =>
        \A i \in 1..Len(calls) :
            \A k \in 1..Len(calls[i].findings) :
                /\ calls[i].findings[k].complianceFrameworks
                       = <<calls[i].framework>>
                /\ calls[i].findings[k].resourceType = resource["type"]
                /\ calls[i].findings[k].resourceId = resource["id"]

C28_Witness ==
    /\ resource["type"] = "IAM_ROLE"
    /\ Len(calls) = 2
    /\ calls[1].op = "rule"
    /\ calls[1].framework = "SOC2"
    /\ Len(calls[1].findings) = 1
    /\ calls[2].op = "analyze"
    /\ calls[2].framework = "GDPR"
    /\ calls[2].outcome = Result(JsonList(<<JsonObject(FullCandidate)>>))
    /\ calls[2].findings[1].resourceId = "r1"
    /\ calls[2].findings[1].complianceFrameworks = <<"GDPR">>

-----------------------------------------------------------------------------
(* Properties of the scoring loop: Spec *)

RECURSIVE TotalRisk(_, _)
\* The riskScore of the first n findings of fs, added up.
TotalRisk(fs, n) == IF n = 0 THEN 0 ELSE TotalRisk(fs, n - 1) + fs[n].riskScore

Scored == fw_idx > 1 /\ pc \in {"analyze", "report", "done"}

\* C9: when the analysis of a framework returned n >= 1 findings, the score
\* recorded for the framework is max(0, 100 - (sum of their riskScore) / n).
C9_FrameworkScore ==
    (Scored /\ framework_findings # <<>>) =>
        LET n     == Len(framework_findings)
            total == TotalRisk(framework_findings, n)
            score == compliance_scores[compliance_frameworks[fw_idx - 1]]
        IN  IF total <= 100 * n
            THEN score.num * n = (100 * n - total) * score.den
            ELSE score.num = 0

C9_Witness ==
    /\ Scored
    /\ Len(framework_findings) = 2
    /\ framework_findings[1].riskScore = 90
    /\ framework_findings[2].riskScore = 70
    /\ compliance_scores[compliance_frameworks[fw_idx - 1]]
           = [num |-> 20, den |-> 1]

Tagged(framework) ==
    {k \in 1..Len(all_findings) :
         InList(framework, all_findings[k].complianceFrameworks)}

\* C10: once the audit has scored its frameworks, a requested framework for
\* which the analysis produced no finding has the score 100.0, whatever
\* findings the other frameworks produced.
C10_EmptyEvidence ==
    pc \in {"report", "done"} =>
        \A i \in 1..Len(compliance_frameworks) :
            Tagged(compliance_frameworks[i]) = {}
                => /\ compliance_frameworks[i] \in DOMAIN compliance_scores
                   /\ compliance_scores[compliance_frameworks[i]]
                          = [num |-> 100, den |-> 1]

C10_Witness ==
    /\ pc = "done"
    /\ all_findings # <<>>
    /\ \E i \in 1..Len(compliance_frameworks) :
           /\ Tagged(compliance_frameworks[i]) = {}
           /\ compliance_scores[compliance_frameworks[i]].num = 100

IsScore(score) ==
    /\ ~FracLess(score, FracOfInt(0))
    /\ ~FracLess(FracOfInt(100), score)

\* C11 as stated: every per-framework compliance score and the overall score
\* computed by audit_compliance lie in the closed range [0, 100].
C11_ScoresInRange ==
    /\ \A framework \in DOMAIN compliance_scores :
           IsScore(compliance_scores[framework])
    /\ pc = "done" => IsScore(overall_score)

RequestedSet == {compliance_frameworks[i] : i \in 1..Len(compliance_frameworks)}

RECURSIVE DenProduct(_)
\* The product of the denominators of the scores of the frameworks in keys.
DenProduct(keys) ==
    IF keys = {} THEN 1
    ELSE LET k == CHOOSE x \in keys : TRUE
         IN  compliance_scores[k].den * DenProduct(keys \ {k})

RECURSIVE ScaledSum(_, _)
\* The sum of the scores of the frameworks in keys, times d.
ScaledSum(keys, d) ==
    IF keys = {} THEN 0
    ELSE LET k == CHOOSE x \in keys : TRUE
         IN  compliance_scores[k].num * (d \div compliance_scores[k].den)
                 + ScaledSum(keys \ {k}, d)

\* C12: when the audit is done there is one score per requested framework,
\* the overall score is the arithmetic mean of these scores, it is 100.0 when
\* no framework was requested, and it is 100.0 with one requested framework
\* and zero findings.
C12_OverallMean ==
    pc = "done" =>
        /\ DOMAIN compliance_scores = RequestedSet
        /\ LET n == Cardinality(RequestedSet)
               d == DenProduct(RequestedSet)
           IN  IF n = 0
               THEN overall_score = FracOfInt(100)
               ELSE overall_score.num * n * d
                        = ScaledSum(RequestedSet, d) * overall_score.den
        /\ (Len(compliance_frameworks) = 1 /\ all_findings = <<>>)
               => overall_score = FracOfInt(100)

C12_Witness ==
    /\ pc = "done"
    /\ compliance_frameworks = <<"GDPR", "SOC2">>
    /\ compliance_scores["GDPR"] = FracOfInt(100)
    /\ compliance_scores["SOC2"] = [num |-> 65, den |-> 2]
    /\ overall_score = [num |-> 265, den |-> 4]

RECURSIVE TaggedRisk(_, _)
\* The riskScore of the findings among the first n of all_findings whose
\* complianceFrameworks contains the framework, added up.
TaggedRisk(framework, n) ==
    IF n = 0 THEN 0
    ELSE TaggedRisk(framework, n - 1)
             + (IF n \in Tagged(framework) THEN all_findings[n].riskScore
                ELSE 0)

\* C25 as stated: in the result of an audit, the score of every requested
\* framework F is the scoring rule applied to the findings of the result
\* whose complianceFrameworks contains F: 100.0 if there are none, otherwise
\* max(0, 100 - mean riskScore).
C25_Recomputable ==
    pc = "done" =>
        \A framework \in RequestedSet :
            LET n     == Cardinality(Tagged(framework))
                total == TaggedRisk(framework, Len(all_findings))
                score == compliance_scores[framework]
            IN  IF n = 0 THEN score = FracOfInt(100)
                ELSE IF total <= 100 * n
                THEN score.num * n = (100 * n - total) * score.den
                ELSE score.num = 0

\* The findings of the run that have a requirement text of the rule engine.
RuleProduced ==
    {k \in 1..Len(all_findings) :
         \E rule \in {"Data protection", "Encryption", "Network security",
                       "Least privilege"} :
             all_findings[k].requirement
                 = all_findings[k].complianceFrameworks[1] \o ": " \o rule
                       \o " requirements"}

Identity(finding) ==
    <<finding.resourceId, finding.resourceType, finding.requirement,
      finding.complianceFrameworks[1]>>

DistinctIds ==
    \A i, j \in 1..Len(resources) :
        resources[i].id = resources[j].id => i = j

\* C26 as stated: in an audit run over resources with pairwise distinct
\* ids, no two findings of the rule engine share the identity tuple
\* (resourceId, resourceType, requirement, framework).
C26_UniqueIdentity ==
    (pc = "done" /\ DistinctIds) =>
        \A i, j \in RuleProduced :
            Identity(all_findings[i]) = Identity(all_findings[j]) => i = j

C29_ReportGenerated ==
    (/\ pc = "done"
     /\ result.status = "COMPLETED"
     /\ result.reportGenerated = "True") => result.report = "COMPLETED"

------------------------------------------------------------------------------
(* Properties of one analyze_compliance call: SpecCompliance *)

RECURSIVE LoggedFindings(_)
\* The findings of the resources analysed so far, in the order of analysis.
LoggedFindings(n) ==
    IF n = 0 THEN <<>>
    ELSE LoggedFindings(n - 1) \o analysis_log[n].findings

\* C13: in an analyze_compliance call, a resource whose analyzer call failed
\* has exactly the rule engine's findings for the resource and the
\* framework; every other resource has the findings of its own analyzer
\* answer; and the call returns, with the findings of all its resources in
\* order.
C13_FailureIsolated ==
    /\ Len(analysis_log) = res_idx - 1
    /\ findings = LoggedFindings(Len(analysis_log))
    /\ \A i \in 1..Len(analysis_log) :
           analysis_log[i].findings =
               IF analysis_log[i].failed
               THEN rule_based_analysis(compliance_frameworks[1],
                                        resources[i], now)
               ELSE parse_analysis_result(compliance_frameworks[1],
                                          resources[i],
                                          analysis_log[i].analysis_result, now)
    /\ pc = "returned" =>
           /\ Len(analysis_log) = Len(resources)
           /\ framework_findings = findings

C13_Witness ==
    /\ pc = "returned"
    /\ Len(analysis_log) = 2
    /\ analysis_log[1].failed
    /\ resources[1].type = "S3_BUCKET"
    /\ Len(analysis_log[1].findings) = 2
    /\ ~analysis_log[2].failed
    /\ Len(framework_findings) = 3
    /\ framework_findings[3].riskScore = 150

Orders(n) ==
    {p \in [1..n -> 1..n] : \A i, j \in 1..n : p[i] = p[j] => i = j}

RECURSIVE PermutedFindings(_, _)
\* The findings of the call had it taken the resources in the order p: the
\* findings of resource p[1], then those of resource p[2], up to p[n].
PermutedFindings(p, n) ==
    IF n = 0 THEN <<>>
    ELSE PermutedFindings(p, n - 1) \o analysis_log[p[n]].findings

------------------------------------------------------------------------------
(* Properties of the report compiler: SpecReport *)

Compiled == 1..Len(reports)

\* The number of the audit's findings with the given severity.
SeverityCount(severity) ==
    Cardinality({k \in 1..Len(all_findings) :
                     all_findings[k].severity = severity})

\* C18 as stated: in every compiled report the four bySeverity counts are
\* the numbers of findings of the four severities, they sum to
\* metadata.totalFindings, which is the number of findings passed in, and the
\* executive summary names that number as its total.
C18_SeverityPartition ==
    \A i \in Compiled :
        LET bySeverity == reports[i].findingsSummary.bySeverity
        IN  /\ DOMAIN bySeverity = Severities
            /\ \A severity \in Severities :
                   bySeverity[severity] = SeverityCount(severity)
            /\ reports[i].metadata.totalFindings = Len(all_findings)
            /\ bySeverity["CRITICAL"] + bySeverity["HIGH"]
                   + bySeverity["MEDIUM"] + bySeverity["LOW"]
                   = reports[i].metadata.totalFindings
            /\ Contains(reports[i].executiveSummary,
                        "Total of " \o ToString(Len(all_findings))
                            \o " compliance issues identified")

\* C19 as stated: two compilations of the same inputs are equal on every
\* field except metadata.generatedAt.
C19_Original ==
    \A i, j \in Compiled :
        reports[i] = [reports[j] EXCEPT !.metadata.generatedAt =
                                            reports[i].metadata.generatedAt]

\* C19 as amended: two compilations of the same auditRunId, findings,
\* scores, overall score, frameworks and resourcesScanned are equal on every
\* field except metadata.generatedAt and metadata.reportId, which is a fresh
\* random identifier in each compilation.
C19_Deterministic ==
    \A i, j \in Compiled :
        reports[i] = [reports[j] EXCEPT !.metadata.generatedAt =
                                            reports[i].metadata.generatedAt,
                                        !.metadata.reportId =
                                            reports[i].metadata.reportId]

C19_Witness ==
    /\ Len(reports) = 2
    /\ Len(all_findings) = 2
    /\ compliance_frameworks = <<"SOC2", "GDPR">>
    /\ reports[1].metadata.generatedAt # reports[2].metadata.generatedAt
    /\ reports[1].metadata.reportId # reports[2].metadata.reportId
    /\ reports[1].executiveSummary = reports[2].executiveSummary

StandingRecommendations ==
    <<"Implement automated compliance monitoring to detect issues proactively",
      "Establish regular compliance audit schedules",
      "Train development teams on compliance requirements",
      "Implement automated remediation for common issues">>

\* C20: the recommendations of a report are, in this order, one naming the
\* number of CRITICAL findings iff there is at least one, one naming the
\* number of HIGH findings iff there is at least one, and the four standing
\* recommendations; there are 4, 5 or 6 of them.
C20_Recommendations ==
    \A i \in Compiled :
        LET recs     == reports[i].recommendations
            critical == SeverityCount("CRITICAL")
            high     == SeverityCount("HIGH")
            first    == IF critical >= 1 THEN 1 ELSE 0
            second   == IF high >= 1 THEN 1 ELSE 0
        IN  /\ Len(recs) = first + second + 4
            /\ Len(recs) \in {4, 5, 6}
            /\ SubSeq(recs, Len(recs) - 3, Len(recs)) = StandingRecommendations
            /\ critical >= 1 =>
                   /\ Contains(recs[1], ToString(critical) \o " critical findings")
                   /\ Contains(recs[1], "immediately")
            /\ high >= 1 =>
                   /\ Contains(recs[first + 1],
                               ToString(high) \o " high-severity findings")
                   /\ Contains(recs[first + 1], "30 days")

C20_Witness ==
    \E i \in Compiled :
        /\ SeverityCount("CRITICAL") = 1
        /\ SeverityCount("HIGH") = 1
        /\ Len(reports[i].recommendations) = 6
        /\ reports[i].recommendations[2]
               = "PRIORITY 2: Remediate 1 high-severity findings within 30 days"

RECURSIVE RequestedLines(_)
\* One score line for each of the first n requested frameworks, in the
\* order of the request; a framework requested again has no second line.
RequestedLines(n) ==
    IF n = 0 THEN ""
    ELSE LET framework == compliance_frameworks[n]
         IN  IF \E j \in 1..(n - 1) : compliance_frameworks[j] = framework
             THEN RequestedLines(n - 1)
             ELSE RequestedLines(n - 1)
                      \o "* " \o framework \o ": "
                      \o Format1f(compliance_scores[framework]) \o "/100\n"

\* C21: the FRAMEWORK SCORES part of the executive summary consists of one
\* line for each requested framework, in the order of the frameworks
\* argument, each with the framework's score to one decimal.
C21_ScoreLines ==
    \A i \in Compiled :
        Contains(reports[i].executiveSummary,
                 "FRAMEWORK SCORES:\n        "
                     \o RequestedLines(Len(compliance_frameworks))
                     \o "\n        ")

C21_Witness ==
    /\ Len(reports) = 1
    /\ compliance_frameworks = <<"SOC2", "GDPR">>
    /\ compliance_scores["SOC2"] # compliance_scores["GDPR"]
    /\ Contains(reports[1].executiveSummary,
                "* SOC2: 100.0/100\n* GDPR: 45.0/100\n")

\* C22: the detailed findings of a report are as many as the findings
\* passed in, in their order: the i-th has findingNumber i and the title,
\* severity, resourceType, resourceId and riskScore of the i-th finding.
C22_DetailedFindings ==
    \A i \in Compiled :
        LET detailed == reports[i].detailedFindings
        IN  /\ Len(detailed) = Len(all_findings)
            /\ \A k \in 1..Len(detailed) :
                   /\ detailed[k].findingNumber = k
                   /\ \A field \in {"title", "severity", "resourceType",
                                     "resourceId", "riskScore"} :
                          detailed[k][field] = all_findings[k][field]

C22_Witness ==
    /\ Len(reports) = 1
    /\ Len(all_findings) = 2
    /\ all_findings[1].severity = "LOW"
    /\ all_findings[2].severity = "CRITICAL"
    /\ reports[1].detailedFindings[1].findingNumber = 1
    /\ reports[1].detailedFindings[2].findingNumber = 2
    /\ reports[1].detailedFindings[2].riskScore = 90

------------------------------------------------------------------------------
(* Properties of the report compiler on any finding dicts: SpecContent *)

\* The key a finding is counted under.
TypeKey(finding) ==
    IF "resourceType" \in DOMAIN finding THEN finding["resourceType"]
    ELSE "Unknown"

OfType(resource_type) ==
    {k \in 1..Len(all_findings) : TypeKey(all_findings[k]) = resource_type}

RECURSIVE SumCounts(_, _)
SumCounts(counts, keys) ==
    IF keys = {} THEN 0
    ELSE LET key == CHOOSE x \in keys : TRUE
         IN  counts[key] + SumCounts(counts, keys \ {key})

\* C23: the byResourceType summary of a report has one key for each
\* resourceType that occurs among the findings, "Unknown" standing for a
\* finding without one; each key counts the findings of its type, so no
\* count is 0, and the counts sum to the number of findings.
C23_TypePartition ==
    \A i \in Compiled :
        LET byResourceType == reports[i].findingsSummary.byResourceType
        IN  /\ DOMAIN byResourceType
                   = {TypeKey(all_findings[k]) : k \in 1..Len(all_findings)}
            /\ \A resource_type \in DOMAIN byResourceType :
                   /\ byResourceType[resource_type]
                          = Cardinality(OfType(resource_type))
                   /\ byResourceType[resource_type] >= 1
            /\ SumCounts(byResourceType, DOMAIN byResourceType)
                   = Len(all_findings)
            /\ reports[i].metadata.totalFindings = Len(all_findings)

C23_Witness ==
    /\ Len(reports) = 1
    /\ Len(all_findings) = 2
    /\ "resourceType" \notin DOMAIN all_findings[1]
    /\ all_findings[2] = [severity |-> "MEDIUM", resourceType |-> "Unknown"]
    /\ reports[1].findingsSummary.byResourceType = [Unknown |-> 2]

-----------------------------------------------------------------------------
(* Properties of the audit run record: SpecTrigger *)

\* The record of the run the handler works on, Status None without one.
RunStatus ==
    IF audit_run_id \in DOMAIN audit_runs_table
    THEN Get(audit_runs_table[audit_run_id], "Status", None)
    ELSE None

\* The record is RUNNING from before the first finding is stored until the
\* handler completes the run or handles an error.
C30_RunningFirst ==
    (findings_table # <<>> /\ scan_pc # "returned") => RunStatus = "RUNNING"

\* A 200 response: the record is COMPLETED and counts the records written.
C30_CompletedCount ==
    (scan_pc = "returned" /\ response.statusCode = 200) =>
        /\ RunStatus = "COMPLETED"
        /\ audit_runs_table[audit_run_id].FindingsCount = Len(findings_table)

\* A 500 response once audit_run_id is known: the record is ERROR.
C30_ErrorRecorded ==
    (scan_pc = "returned" /\ response.statusCode = 500
         /\ audit_run_id # Unbound) => RunStatus = "ERROR"

\* No run is left RUNNING once the handler has returned.
C30_NotLeftRunning ==
    (scan_pc = "returned" /\ audit_run_id # Unbound) => RunStatus # "RUNNING"

\* C30: the audit run record is set to RUNNING before any finding of the run
\* is stored, a 200 response implies Status COMPLETED with FindingsCount equal
\* to the number of finding records written by the invocation, and a 500
\* response after the audit run id was determined implies Status ERROR, so
\* that no run is left RUNNING once the handler has returned.
C30_Lifecycle ==
    /\ C30_RunningFirst
    /\ C30_CompletedCount
    /\ C30_ErrorRecorded
    /\ C30_NotLeftRunning

====
